---- MODULE Spec2Model ----
(***************************************************************************)
(* Model of amqpstorm's Connection.IO layer (src/amqpstorm/io.py): the     *)
(* IO object (socket, poller, running flag, inbound buffer, error list),   *)
(* the caller thread running open() and close(), a second application      *)
(* thread running write_to_socket(), and the inbound reader threads        *)
(* running _process_incoming_data().  Each action is one interleaving      *)
(* point of the Python code: a statement, or the call / the return of a    *)
(* blocking system call (select, send, recv, join).                        *)
(***************************************************************************)
EXTENDS Integers, Sequences, FiniteSets, TLC

\* ---------------------------------------------------------------- bounds
MaxOpens == 2       \* open() calls made on the one IO instance
MaxWrites == 1      \* write_to_socket() calls made on the instance
MaxLen == 2         \* longest frame_data given to write_to_socket
MaxChunk == 1       \* most bytes one recv() returns
MaxKeep == 1        \* longest remainder the frame-consumer returns
MaxAddrs == 2       \* most candidate addresses the resolver returns

None == 0
EMPTY_BUFFER == << >>
Bytes == {1, 2}
Handles == 1..MaxOpens          \* sockets / reader threads, one per open()

\* Sequences over S of length lo..hi.
SeqsBetween(S, lo, hi) == UNION {[1..n -> S] : n \in lo..hi}

\* frame_data values: position-tagged bytes, so that a lost, repeated or
\* reordered byte shows.
Payload(n) == [i \in 1..n |-> i]

VARIABLES
  \* ---- IO object fields (io.py 43-52)
  running,          \* self._running (threading.Event)
  socket,           \* self.socket: None or a socket handle
  poller,           \* self.poller: None or the handle the Poller wraps
  inbound_thread,   \* self._inbound_thread: None or a thread
  data_in,          \* self.data_in
  exceptions,       \* self._exceptions (the error sink)
  \* ---- environment: the sockets
  sockState,        \* handle -> "unused" | "connected" | "shutdown" | "closed"
  \* ---- caller thread (open / close)
  mpc,              \* position in open() / close(), "idle" between calls
  opens,            \* open() calls started so far
  addrs,            \* getaddrinfo's result: per candidate, does connect() succeed
  tried,            \* candidates attempted by _find_address_and_connect
  mresult,          \* outcome of the last open()/close() call
  ssl_unavailable,  \* self.use_ssl and not compatibility.SSL_SUPPORTED
  \* ---- reader threads (_process_incoming_data)
  rpc,              \* thread -> position
  rfd,              \* thread -> handle its select() waits on
  rbuf,             \* thread -> self.data_in as loaded by "+="
  rgot,             \* thread -> what _receive() returned
  rlast,            \* thread -> outcome of the last recv attempt
  carried,          \* thread -> what the consumer last returned (ghost)
  consArg,          \* thread -> argument of the last consumer call (ghost)
  consCalls,        \* thread -> consumer calls made in this iteration (ghost)
  rchunk,           \* thread -> bytes recv() delivered in this iteration (ghost)
  \* ---- writer thread (write_to_socket)
  wpc,              \* position in write_to_socket, "idle" between calls
  frame_data,       \* the argument
  total_bytes_written,
  wfd,              \* handle the writer's select() waits on
  wsock,            \* handle send() was called on
  wArg,             \* slice handed to the send() in flight / last made
  sent,             \* bytes the socket accepted during this call (ghost)
  writes,           \* write_to_socket calls started so far
  wappended,        \* entries this call appended to self._exceptions (ghost)
  wlast,            \* outcome of the last wait / send attempt (ghost)
  wsaw,             \* what happened during this call (ghost)
  wresult           \* "none" | "pending" | "returned" | "raised"

ioVars == <<running, socket, poller, inbound_thread, data_in, exceptions, sockState>>
mainVars == <<mpc, opens, addrs, tried, mresult, ssl_unavailable>>
readerVars == <<rpc, rfd, rbuf, rgot, rlast, carried, consArg, consCalls, rchunk>>
writerVars == <<wpc, frame_data, total_bytes_written, wfd, wsock, wArg, sent,
                writes, wappended, wlast, wsaw, wresult>>
vars == <<ioVars, mainVars, readerVars, writerVars>>

\* AMQPConnectionError(why) as appended to self._exceptions.
AMQPConnectionError(why) == [kind |-> "AMQPConnectionError", why |-> why]

\* IO.__init__ (io.py 43-52), with both application threads idle.
Init ==
  /\ running = FALSE
  /\ socket = None
  /\ poller = None
  /\ inbound_thread = None
  /\ data_in = EMPTY_BUFFER
  /\ exceptions = << >>
  /\ sockState = [h \in Handles |-> "unused"]
  /\ mpc = "idle"
  /\ opens = 0
  /\ addrs = << >>
  /\ tried = 0
  /\ mresult = "none"
  /\ ssl_unavailable \in BOOLEAN
  /\ rpc = [t \in Handles |-> "unstarted"]
  /\ rfd = [t \in Handles |-> None]
  /\ rbuf = [t \in Handles |-> EMPTY_BUFFER]
  /\ rgot = [t \in Handles |-> EMPTY_BUFFER]
  /\ rlast = [t \in Handles |-> "none"]
  /\ carried = [t \in Handles |-> EMPTY_BUFFER]
  /\ consArg = [t \in Handles |-> EMPTY_BUFFER]
  /\ consCalls = [t \in Handles |-> 0]
  /\ rchunk = [t \in Handles |-> EMPTY_BUFFER]
  /\ wpc = "idle"
  /\ frame_data = << >>
  /\ total_bytes_written = 0
  /\ wfd = None
  /\ wsock = None
  /\ wArg = << >>
  /\ sent = << >>
  /\ writes = 0
  /\ wappended = 0
  /\ wlast = "none"
  /\ wsaw = {}
  /\ wresult = "none"

\* ------------------------------------------------------------ open()
Terminated == {"done", "crashed"}

\* The caller's discipline of one live connection per instance: open() is
\* called on an instance that is unopened or closed.
CallerMayOpen == socket = None /\ inbound_thread = None

\* io.py 75: self.data_in = EMPTY_BUFFER
open_reset ==
  /\ mpc = "idle"
  /\ opens < MaxOpens
  /\ opens' = opens + 1
  /\ data_in' = EMPTY_BUFFER
  /\ mpc' = "o_set"
  /\ mresult' = "pending"
  /\ UNCHANGED <<running, socket, poller, inbound_thread, exceptions, sockState,
                 addrs, tried, ssl_unavailable>>
  /\ UNCHANGED <<readerVars, writerVars>>

OpenReset == CallerMayOpen /\ open_reset

\* open() called on an instance that is still open.
ReopenReset == ~CallerMayOpen /\ open_reset

\* io.py 76: self._running.set()
OpenSetRunning ==
  /\ mpc = "o_set"
  /\ running' = TRUE
  /\ mpc' = "o_resolve"
  /\ UNCHANGED <<socket, poller, inbound_thread, data_in, exceptions, sockState,
                 opens, addrs, tried, mresult, ssl_unavailable>>
  /\ UNCHANGED <<readerVars, writerVars>>

\* OpenGetAddresses with the handler of io.py 133-134 appending the error to
\* self._exceptions and returning, as the reader and the writer do.
OpenGetAddresses_reports_to_sink ==
  /\ mpc = "o_resolve"
  /\ \/ /\ mpc' = "idle"
        /\ mresult' = "returned"
        /\ exceptions' = Append(exceptions, AMQPConnectionError("gaierror"))
        /\ UNCHANGED <<addrs, tried>>
     \/ /\ addrs' \in SeqsBetween(BOOLEAN, 1, MaxAddrs)
        /\ tried' = 0
        /\ mpc' = "o_connect"
        /\ UNCHANGED <<mresult, exceptions>>
  /\ UNCHANGED <<running, socket, poller, inbound_thread, data_in, sockState>>
  /\ UNCHANGED <<opens, ssl_unavailable, readerVars, writerVars>>

\* io.py 77, 121-135: _get_socket_addresses; socket.gaierror is re-raised as
\* AMQPConnectionError out of open().
OpenGetAddresses ==
  /\ mpc = "o_resolve"
  /\ \/ /\ mpc' = "idle"
        /\ mresult' = "raised_gaierror"
        /\ UNCHANGED <<addrs, tried>>
     \/ /\ addrs' \in SeqsBetween(BOOLEAN, 1, MaxAddrs)
        /\ tried' = 0
        /\ mpc' = "o_connect"
        /\ UNCHANGED mresult
  /\ UNCHANGED <<ioVars, opens, ssl_unavailable, readerVars, writerVars>>

\* OpenConnect without the "return sock" of io.py 153 unless the candidate
\* is the last one: the loop goes on past a candidate that connected.
OpenConnect_binds_last ==
  /\ mpc = "o_connect"
  /\ IF tried = Len(addrs)
       THEN /\ mpc' = "idle"
            /\ mresult' = "raised_could_not_connect"
            /\ addrs' = << >>
            /\ tried' = 0
            /\ UNCHANGED <<socket, sockState>>
       ELSE IF ssl_unavailable
         THEN /\ mpc' = "idle"
              /\ mresult' = "raised_no_tls"
              /\ addrs' = << >>
              /\ tried' = 0
              /\ UNCHANGED <<socket, sockState>>
         ELSE /\ tried' = tried + 1
              /\ IF addrs[tried + 1]
                   THEN /\ socket' = opens
                        /\ sockState' = [sockState EXCEPT ![opens] = "connected"]
                        /\ mpc' = IF tried + 1 = Len(addrs) THEN "o_poller"
                                                            ELSE "o_connect"
                   ELSE UNCHANGED <<socket, sockState, mpc>>
              /\ UNCHANGED <<mresult, addrs>>
  /\ UNCHANGED <<running, poller, inbound_thread, data_in, exceptions,
                 opens, ssl_unavailable>>
  /\ UNCHANGED <<readerVars, writerVars>>

\* OpenConnect keeping the socket object of the first open() for later ones
\* instead of the socket.socket() per candidate of io.py 148, 166.
OpenConnect_reuses_socket ==
  /\ mpc = "o_connect"
  /\ IF tried = Len(addrs)
       THEN /\ mpc' = "idle"
            /\ mresult' = "raised_could_not_connect"
            /\ addrs' = << >>
            /\ tried' = 0
            /\ UNCHANGED <<socket, sockState>>
       ELSE IF ssl_unavailable
         THEN /\ mpc' = "idle"
              /\ mresult' = "raised_no_tls"
              /\ addrs' = << >>
              /\ tried' = 0
              /\ UNCHANGED <<socket, sockState>>
         ELSE /\ tried' = tried + 1
              /\ IF addrs[tried + 1]
                   THEN /\ socket' = 1
                        /\ sockState' = [sockState EXCEPT ![1] = "connected"]
                        /\ mpc' = "o_poller"
                   ELSE UNCHANGED <<socket, sockState, mpc>>
              /\ UNCHANGED <<mresult, addrs>>
  /\ UNCHANGED <<running, poller, inbound_thread, data_in, exceptions,
                 opens, ssl_unavailable>>
  /\ UNCHANGED <<readerVars, writerVars>>

\* OpenConnect with "raise" for the "continue" of io.py 151-152: the first
\* candidate that fails ends the search.
OpenConnect_gives_up_early ==
  /\ mpc = "o_connect"
  /\ IF tried = Len(addrs)
       THEN /\ mpc' = "idle"
            /\ mresult' = "raised_could_not_connect"
            /\ addrs' = << >>
            /\ tried' = 0
            /\ UNCHANGED <<socket, sockState>>
       ELSE IF ssl_unavailable
         THEN /\ mpc' = "idle"
              /\ mresult' = "raised_no_tls"
              /\ addrs' = << >>
              /\ tried' = 0
              /\ UNCHANGED <<socket, sockState>>
         ELSE IF addrs[tried + 1]
           THEN /\ tried' = tried + 1
                /\ socket' = opens
                /\ sockState' = [sockState EXCEPT ![opens] = "connected"]
                /\ mpc' = "o_poller"
                /\ UNCHANGED <<mresult, addrs>>
           ELSE /\ mpc' = "idle"
                /\ mresult' = "raised_could_not_connect"
                /\ addrs' = << >>
                /\ tried' = 0
                /\ UNCHANGED <<socket, sockState>>
  /\ UNCHANGED <<running, poller, inbound_thread, data_in, exceptions,
                 opens, ssl_unavailable>>
  /\ UNCHANGED <<readerVars, writerVars>>

\* io.py 78, 137-174: _find_address_and_connect, one candidate per step;
\* _create_socket raises when TLS is asked for and not supported.
OpenConnect ==
  /\ mpc = "o_connect"
  /\ IF tried = Len(addrs)
       THEN /\ mpc' = "idle"
            /\ mresult' = "raised_could_not_connect"
            /\ addrs' = << >>
            /\ tried' = 0
            /\ UNCHANGED <<socket, sockState>>
       ELSE IF ssl_unavailable
         THEN /\ mpc' = "idle"
              /\ mresult' = "raised_no_tls"
              /\ addrs' = << >>
              /\ tried' = 0
              /\ UNCHANGED <<socket, sockState>>
         ELSE /\ tried' = tried + 1
              /\ IF addrs[tried + 1]
                   THEN /\ socket' = opens
                        /\ sockState' = [sockState EXCEPT ![opens] = "connected"]
                        /\ mpc' = "o_poller"
                   ELSE UNCHANGED <<socket, sockState, mpc>>
              /\ UNCHANGED <<mresult, addrs>>
  /\ UNCHANGED <<running, poller, inbound_thread, data_in, exceptions,
                 opens, ssl_unavailable>>
  /\ UNCHANGED <<readerVars, writerVars>>

\* io.py 79: self.poller = Poller(self.socket)
OpenPoller ==
  /\ mpc = "o_poller"
  /\ poller' = socket
  /\ mpc' = "o_thread"
  /\ UNCHANGED <<running, socket, inbound_thread, data_in, exceptions, sockState,
                 opens, addrs, tried, mresult, ssl_unavailable>>
  /\ UNCHANGED <<readerVars, writerVars>>

\* io.py 80, 191-200: _create_inbound_thread starts the thread, and open()
\* returns (its locals die).
OpenThread ==
  /\ mpc = "o_thread"
  /\ rpc' = [rpc EXCEPT ![opens] = "check"]
  /\ inbound_thread' = opens
  /\ mpc' = "idle"
  /\ mresult' = "returned"
  /\ addrs' = << >>
  /\ tried' = 0
  /\ UNCHANGED <<running, socket, poller, data_in, exceptions, sockState,
                 opens, ssl_unavailable>>
  /\ UNCHANGED <<rfd, rbuf, rgot, rlast, carried, consArg, consCalls, rchunk, writerVars>>

\* ------------------------------------------------------------ close()
\* CloseClear without the self._running.clear() of io.py 59.
CloseClear_keeps_running ==
  /\ mpc = "idle"
  /\ mpc' = "c_join"
  /\ mresult' = "pending"
  /\ UNCHANGED <<ioVars, opens, addrs, tried, ssl_unavailable>>
  /\ UNCHANGED <<readerVars, writerVars>>

\* io.py 59: self._running.clear()
CloseClear ==
  /\ mpc = "idle"
  /\ running' = FALSE
  /\ mpc' = "c_join"
  /\ mresult' = "pending"
  /\ UNCHANGED <<socket, poller, inbound_thread, data_in, exceptions, sockState,
                 opens, addrs, tried, ssl_unavailable>>
  /\ UNCHANGED <<readerVars, writerVars>>

\* What Thread.join() waits for.
ThreadStopped(t) == rpc[t] \in Terminated

\* CloseJoin without the join() of io.py 61.
CloseJoin_no_wait ==
  /\ mpc = "c_join"
  /\ mpc' = "c_shutdown"
  /\ UNCHANGED <<ioVars, opens, addrs, tried, mresult, ssl_unavailable>>
  /\ UNCHANGED <<readerVars, writerVars>>

\* io.py 60-61: if self._inbound_thread: self._inbound_thread.join()
CloseJoin ==
  /\ mpc = "c_join"
  /\ inbound_thread # None => ThreadStopped(inbound_thread)
  /\ mpc' = "c_shutdown"
  /\ UNCHANGED <<ioVars, opens, addrs, tried, mresult, ssl_unavailable>>
  /\ UNCHANGED <<readerVars, writerVars>>

\* CloseShutdown without the try / except of io.py 115-119: the error of
\* shutdown() leaves close().
CloseShutdown_unguarded ==
  /\ mpc = "c_shutdown"
  /\ IF socket = None
       THEN mpc' = "c_thread" /\ UNCHANGED <<sockState, mresult>>
       ELSE \/ /\ sockState' = [sockState EXCEPT ![socket] = "shutdown"]
               /\ mpc' = "c_sockclose"
               /\ UNCHANGED mresult
            \/ /\ mpc' = "idle"
               /\ mresult' = "close_raised"
               /\ UNCHANGED sockState
  /\ UNCHANGED <<running, socket, poller, inbound_thread, data_in, exceptions,
                 opens, addrs, tried, ssl_unavailable>>
  /\ UNCHANGED <<readerVars, writerVars>>

\* io.py 62-63, 115-116: if self.socket: self.socket.shutdown(SHUT_RDWR);
\* an OSError / socket.error of shutdown skips close() (io.py 118-119).
CloseShutdown ==
  /\ mpc = "c_shutdown"
  /\ IF socket = None
       THEN mpc' = "c_thread" /\ UNCHANGED sockState
       ELSE \/ /\ sockState' = [sockState EXCEPT ![socket] = "shutdown"]
               /\ mpc' = "c_sockclose"
            \/ /\ mpc' = "c_thread"
               /\ UNCHANGED sockState
  /\ UNCHANGED <<running, socket, poller, inbound_thread, data_in, exceptions,
                 opens, addrs, tried, mresult, ssl_unavailable>>
  /\ UNCHANGED <<readerVars, writerVars>>

\* io.py 117-119: self.socket.close(), its error swallowed.
CloseSocketClose ==
  /\ mpc = "c_sockclose"
  /\ \/ sockState' = [sockState EXCEPT ![socket] = "closed"]
     \/ UNCHANGED sockState
  /\ mpc' = "c_thread"
  /\ UNCHANGED <<running, socket, poller, inbound_thread, data_in, exceptions,
                 opens, addrs, tried, mresult, ssl_unavailable>>
  /\ UNCHANGED <<readerVars, writerVars>>

\* io.py 64: self._inbound_thread = None
CloseClearThread ==
  /\ mpc = "c_thread"
  /\ inbound_thread' = None
  /\ mpc' = "c_poller"
  /\ UNCHANGED <<running, socket, poller, data_in, exceptions, sockState,
                 opens, addrs, tried, mresult, ssl_unavailable>>
  /\ UNCHANGED <<readerVars, writerVars>>

\* io.py 65: self.poller = None
CloseClearPoller ==
  /\ mpc = "c_poller"
  /\ poller' = None
  /\ mpc' = "c_socket"
  /\ UNCHANGED <<running, socket, inbound_thread, data_in, exceptions, sockState,
                 opens, addrs, tried, mresult, ssl_unavailable>>
  /\ UNCHANGED <<readerVars, writerVars>>

\* io.py 66: self.socket = None, and close() returns.
CloseClearSocket ==
  /\ mpc = "c_socket"
  /\ socket' = None
  /\ mpc' = "idle"
  /\ mresult' = "closed"
  /\ UNCHANGED <<running, poller, inbound_thread, data_in, exceptions, sockState,
                 opens, addrs, tried, ssl_unavailable>>
  /\ UNCHANGED <<readerVars, writerVars>>

\* ------------------------------------------- _process_incoming_data()
Alive == {"check", "poll", "wait", "load", "recv", "store", "consume"}
FatalRead == {"fatal", "nosocket"}
TransientRead == {"timeout", "wouldblock"}

\* io.py 207: while self._running.is_set(); the locals of the finished
\* iteration are dead here, and all of the thread's are when it ends.
RCheck(t) ==
  /\ rpc[t] = "check"
  /\ rpc' = [rpc EXCEPT ![t] = IF running THEN "poll" ELSE "done"]
  /\ rbuf' = [rbuf EXCEPT ![t] = EMPTY_BUFFER]
  /\ rgot' = [rgot EXCEPT ![t] = EMPTY_BUFFER]
  /\ consArg' = [consArg EXCEPT ![t] = EMPTY_BUFFER]
  /\ rfd' = [rfd EXCEPT ![t] = None]
  /\ rlast' = [rlast EXCEPT ![t] = "none"]
  /\ rchunk' = [rchunk EXCEPT ![t] = EMPTY_BUFFER]
  /\ consCalls' = [consCalls EXCEPT ![t] = 0]
  /\ carried' = [carried EXCEPT ![t] = IF running THEN @ ELSE EMPTY_BUFFER]
  /\ UNCHANGED <<ioVars, mainVars, writerVars>>

\* io.py 208, 34-37: self.poller.ready_to_read enters select(); with
\* self.poller None the attribute access raises inside the thread.
RPollCall(t) ==
  /\ rpc[t] = "poll"
  /\ IF poller = None
       THEN rpc' = [rpc EXCEPT ![t] = "crashed"] /\ UNCHANGED rfd
       ELSE rpc' = [rpc EXCEPT ![t] = "wait"] /\ rfd' = [rfd EXCEPT ![t] = poller]
  /\ UNCHANGED <<ioVars, mainVars, writerVars, rbuf, rgot, rlast, carried, consArg, consCalls, rchunk>>

\* io.py 36-37, 208: select() returns within POLL_TIMEOUT with rlist empty
\* or not (readiness: what the peer lets it report); on a closed descriptor
\* it raises.
poll_return(t, readiness) ==
  /\ rpc[t] = "wait"
  /\ IF sockState[rfd[t]] = "closed"
       THEN rpc' = [rpc EXCEPT ![t] = "crashed"]
       ELSE IF sockState[rfd[t]] = "shutdown"
         THEN rpc' = [rpc EXCEPT ![t] = "load"]
         ELSE \E ready \in readiness :
                rpc' = [rpc EXCEPT ![t] = IF ready THEN "load" ELSE "check"]
  /\ UNCHANGED <<ioVars, mainVars, writerVars, rfd, rbuf, rgot, rlast, carried, consArg, consCalls, rchunk>>

RPollReturn(t) == poll_return(t, BOOLEAN)

\* The same wait while the peer sends nothing.
RPollIdle(t) == poll_return(t, {FALSE})

\* io.py 209, 220-223: "self.data_in +=" loads the buffer, then _receive()
\* runs: without a socket it raises socket.error('connection/socket error'),
\* which its own handler (io.py 227-230) records; else recv() is entered.
RReceiveCall(t) ==
  /\ rpc[t] = "load"
  /\ rbuf' = [rbuf EXCEPT ![t] = data_in]
  /\ IF socket = None
       THEN /\ exceptions' = Append(exceptions,
                                    AMQPConnectionError("connection/socket error"))
            /\ running' = FALSE
            /\ rgot' = [rgot EXCEPT ![t] = EMPTY_BUFFER]
            /\ rlast' = [rlast EXCEPT ![t] = "nosocket"]
            /\ rpc' = [rpc EXCEPT ![t] = "store"]
            /\ UNCHANGED rfd
       ELSE /\ rfd' = [rfd EXCEPT ![t] = socket]
            /\ rpc' = [rpc EXCEPT ![t] = "recv"]
            /\ UNCHANGED <<exceptions, running, rgot, rlast>>
  /\ UNCHANGED <<socket, poller, inbound_thread, data_in, sockState>>
  /\ UNCHANGED <<mainVars, writerVars, carried, consArg, consCalls, rchunk>>

\* What socket.recv(MAX_FRAME_SIZE) can do on a socket in state st.
RecvOutcomes(st) ==
  IF st = "connected" THEN {"data", "timeout", "wouldblock", "fatal"}
  ELSE IF st = "shutdown" THEN {"data", "fatal"}
  ELSE {"fatal"}

\* The bytes a recv() that returns can deliver: up to MaxChunk of them, none
\* at end of stream.
RecvChunks(st) ==
  IF st = "connected" THEN SeqsBetween(Bytes, 0, MaxChunk) ELSE {EMPTY_BUFFER}

\* receive_result without the errno test of io.py 228.
receive_result_no_errno_test(t, outcome, chunk) ==
  /\ rlast' = [rlast EXCEPT ![t] = outcome]
  /\ rgot' = [rgot EXCEPT ![t] = IF outcome = "data" THEN chunk ELSE EMPTY_BUFFER]
  /\ IF outcome \in {"fatal", "wouldblock"}
       THEN /\ exceptions' = Append(exceptions, AMQPConnectionError("oserror"))
            /\ running' = FALSE
       ELSE UNCHANGED <<exceptions, running>>

\* receive_result without the self._running.clear() of io.py 230.
receive_result_keeps_running(t, outcome, chunk) ==
  /\ rlast' = [rlast EXCEPT ![t] = outcome]
  /\ rgot' = [rgot EXCEPT ![t] = IF outcome = "data" THEN chunk ELSE EMPTY_BUFFER]
  /\ IF outcome = "fatal"
       THEN /\ exceptions' = Append(exceptions, AMQPConnectionError("oserror"))
            /\ UNCHANGED running
       ELSE UNCHANGED <<exceptions, running>>

\* receive_result with a recv() of no bytes taken for the end of the stream
\* and handled like the errors of io.py 229-230.
receive_result_eof_is_fatal(t, outcome, chunk) ==
  /\ rlast' = [rlast EXCEPT ![t] = outcome]
  /\ rgot' = [rgot EXCEPT ![t] = IF outcome = "data" THEN chunk ELSE EMPTY_BUFFER]
  /\ IF outcome = "fatal" \/ (outcome = "data" /\ chunk = EMPTY_BUFFER)
       THEN /\ exceptions' = Append(exceptions, AMQPConnectionError("oserror"))
            /\ running' = FALSE
       ELSE UNCHANGED <<exceptions, running>>

\* io.py 224-231: the result of recv() and _receive's handlers.
receive_result(t, outcome, chunk) ==
  /\ rlast' = [rlast EXCEPT ![t] = outcome]
  /\ rgot' = [rgot EXCEPT ![t] = IF outcome = "data" THEN chunk ELSE EMPTY_BUFFER]
  /\ IF outcome = "fatal"
       THEN /\ exceptions' = Append(exceptions, AMQPConnectionError("oserror"))
            /\ running' = FALSE
       ELSE UNCHANGED <<exceptions, running>>

RReceiveReturn(t) ==
  /\ rpc[t] = "recv"
  /\ \E outcome \in RecvOutcomes(sockState[rfd[t]]) :
       \E chunk \in (IF outcome = "data" THEN RecvChunks(sockState[rfd[t]])
                                          ELSE {EMPTY_BUFFER}) :
         /\ receive_result(t, outcome, chunk)
         /\ rchunk' = [rchunk EXCEPT ![t] = chunk]
  /\ rpc' = [rpc EXCEPT ![t] = "store"]
  /\ UNCHANGED <<socket, poller, inbound_thread, data_in, sockState>>
  /\ UNCHANGED <<mainVars, writerVars, rfd, rbuf, carried, consArg, consCalls>>

\* RStore with "=" for "+=".
RStore_overwrites(t) ==
  /\ rpc[t] = "store"
  /\ data_in' = rgot[t]
  /\ rpc' = [rpc EXCEPT ![t] = "consume"]
  /\ UNCHANGED <<running, socket, poller, inbound_thread, exceptions, sockState>>
  /\ UNCHANGED <<mainVars, writerVars, rfd, rbuf, rgot, rlast, carried, consArg, consCalls, rchunk>>

\* io.py 209: the store of "self.data_in += ..."
RStore(t) ==
  /\ rpc[t] = "store"
  /\ data_in' = rbuf[t] \o rgot[t]
  /\ rpc' = [rpc EXCEPT ![t] = "consume"]
  /\ UNCHANGED <<running, socket, poller, inbound_thread, exceptions, sockState>>
  /\ UNCHANGED <<mainVars, writerVars, rfd, rbuf, rgot, rlast, carried, consArg, consCalls, rchunk>>

\* io.py 210: self.data_in = self._on_read_impl(self.data_in); the consumer
\* is any function returning at most MaxKeep bytes.
on_read_call(t, ret) ==
  /\ consArg' = [consArg EXCEPT ![t] = data_in]
  /\ data_in' = ret
  /\ carried' = [carried EXCEPT ![t] = ret]
  /\ consCalls' = [consCalls EXCEPT ![t] = @ + 1]

\* RConsume calling the consumer only after a read that returned bytes.
RConsume_only_after_data(t) ==
  /\ rpc[t] = "consume"
  /\ IF rlast[t] = "data"
       THEN \E ret \in SeqsBetween(Bytes, 0, MaxKeep) : on_read_call(t, ret)
       ELSE UNCHANGED <<consArg, data_in, carried, consCalls>>
  /\ rpc' = [rpc EXCEPT ![t] = "check"]
  /\ UNCHANGED <<running, socket, poller, inbound_thread, exceptions, sockState>>
  /\ UNCHANGED <<mainVars, writerVars, rfd, rbuf, rgot, rlast, rchunk>>

RConsume(t) ==
  /\ rpc[t] = "consume"
  /\ \E ret \in SeqsBetween(Bytes, 0, MaxKeep) : on_read_call(t, ret)
  /\ rpc' = [rpc EXCEPT ![t] = "check"]
  /\ UNCHANGED <<running, socket, poller, inbound_thread, exceptions, sockState>>
  /\ UNCHANGED <<mainVars, writerVars, rfd, rbuf, rgot, rlast, rchunk>>

\* ---------------------------------------------------- write_to_socket()
Take(q, n) == SubSeq(q, 1, n)
\* frame_data[k:]
SliceFrom(q, k) == SubSeq(q, k + 1, Len(q))

FatalSend == {"fatal", "zero"}
TransientSend == {"timeout", "wouldblock"}

\* io.py 88-89: the call, with its cursor at 0.
WriteCall ==
  /\ wpc = "idle"
  /\ writes < MaxWrites
  /\ \E n \in 0..MaxLen : frame_data' = Payload(n)
  /\ writes' = writes + 1
  /\ total_bytes_written' = 0
  /\ sent' = << >>
  /\ wArg' = << >>
  /\ wappended' = 0
  /\ wlast' = "none"
  /\ wsaw' = IF socket = None THEN {"nosocket_at_call"} ELSE {}
  /\ wresult' = "pending"
  /\ wpc' = "loop"
  /\ UNCHANGED <<ioVars, mainVars, readerVars, wfd, wsock>>

\* WLoop with the running flag in the loop test, as in the reader's loop
\* (io.py 207).
WLoop_tests_running ==
  /\ wpc = "loop"
  /\ IF running /\ total_bytes_written < Len(frame_data)
       THEN wpc' = "sockcheck" /\ wlast' = "none" /\ UNCHANGED wresult
       ELSE wpc' = "idle" /\ wresult' = "returned" /\ UNCHANGED wlast
  /\ UNCHANGED <<ioVars, mainVars, readerVars>>
  /\ UNCHANGED <<frame_data, total_bytes_written, wfd, wsock, wArg, sent, writes,
                 wappended, wsaw>>

\* io.py 90: while total_bytes_written < bytes_to_send
WLoop ==
  /\ wpc = "loop"
  /\ IF total_bytes_written < Len(frame_data)
       THEN wpc' = "sockcheck" /\ wlast' = "none" /\ UNCHANGED wresult
       ELSE wpc' = "idle" /\ wresult' = "returned" /\ UNCHANGED wlast
  /\ UNCHANGED <<ioVars, mainVars, readerVars>>
  /\ UNCHANGED <<frame_data, total_bytes_written, wfd, wsock, wArg, sent, writes,
                 wappended, wsaw>>

\* io.py 104-108: the handler of a socket.error that is not EWOULDBLOCK /
\* EAGAIN: record it and return.
write_fatal(why) ==
  /\ exceptions' = Append(exceptions, AMQPConnectionError(why))
  /\ wappended' = wappended + 1
  /\ wpc' = "idle"
  /\ wresult' = "returned"

\* An exception no handler of write_to_socket catches.
write_raises ==
  /\ wpc' = "idle"
  /\ wresult' = "raised"
  /\ UNCHANGED <<exceptions, wappended>>

\* WSocketCheck without the test of io.py 92-93.
WSocketCheck_untested ==
  /\ wpc = "sockcheck"
  /\ wpc' = "poll"
  /\ wsaw' = IF socket = None THEN wsaw ELSE wsaw \cup {"socket"}
  /\ UNCHANGED <<ioVars, mainVars, readerVars>>
  /\ UNCHANGED <<frame_data, total_bytes_written, wfd, wsock, wArg, sent, writes,
                 wappended, wresult, wlast>>

\* io.py 92-93: if not self.socket: raise socket.error(...)
WSocketCheck ==
  /\ wpc = "sockcheck"
  /\ IF socket = None
       THEN /\ write_fatal("connection/socket error")
            /\ wlast' = "nosocket"
            /\ UNCHANGED wsaw
       ELSE /\ wpc' = "poll"
            /\ wsaw' = wsaw \cup {"socket"}
            /\ UNCHANGED <<exceptions, wappended, wresult, wlast>>
  /\ UNCHANGED <<running, socket, poller, inbound_thread, data_in, sockState>>
  /\ UNCHANGED <<mainVars, readerVars>>
  /\ UNCHANGED <<frame_data, total_bytes_written, wfd, wsock, wArg, sent, writes>>

\* io.py 94, 27-29: self.poller.ready_to_write enters select(); with
\* self.poller None the attribute access raises AttributeError.
WPollCall ==
  /\ wpc = "poll"
  /\ IF poller = None
       THEN write_raises /\ wlast' = "nopoller" /\ UNCHANGED wfd
       ELSE /\ wfd' = poller
            /\ wpc' = "wait"
            /\ UNCHANGED <<exceptions, wappended, wresult, wlast>>
  /\ UNCHANGED <<running, socket, poller, inbound_thread, data_in, sockState>>
  /\ UNCHANGED <<mainVars, readerVars>>
  /\ UNCHANGED <<frame_data, total_bytes_written, wsock, wArg, sent, writes, wsaw>>

\* What select() on the write triple can report for a socket in state st:
\* the exceptional list set with the write list empty ("xlist") or set too
\* ("xlist_writable"), the socket writable, nothing within POLL_TIMEOUT; on
\* a closed descriptor select() itself fails, with socket.error(EBADF) or
\* with ValueError depending on the runtime.
SelectWriteOutcomes(st) ==
  IF st = "connected" THEN {"xlist", "xlist_writable", "writable", "notready"}
  ELSE IF st = "shutdown" THEN {"writable"}
  ELSE {"ebadf", "valueerror"}

\* The select() results with the exceptional list set.
Exceptional == {"xlist", "xlist_writable"}

\* ready_to_write_result with "return wlist" tested before the xlist of
\* io.py 30: a writable socket is written to whatever its xlist.
ready_to_write_result_wlist_first(outcome) ==
  /\ wlast' = outcome
  /\ CASE outcome = "xlist" -> write_fatal("connection/socket error")
       [] outcome = "ebadf" -> write_fatal("oserror")
       [] outcome = "valueerror" -> write_raises
       [] outcome \in {"writable", "xlist_writable"} ->
            wpc' = "send" /\ UNCHANGED <<exceptions, wappended, wresult>>
       [] outcome = "notready" ->
            wpc' = "loop" /\ UNCHANGED <<exceptions, wappended, wresult>>

\* io.py 29-32, 94-95: the result of ready_to_write.
ready_to_write_result(outcome) ==
  /\ wlast' = outcome
  /\ CASE outcome \in Exceptional -> write_fatal("connection/socket error")
       [] outcome = "ebadf" -> write_fatal("oserror")
       [] outcome = "valueerror" -> write_raises
       [] outcome = "writable" ->
            wpc' = "send" /\ UNCHANGED <<exceptions, wappended, wresult>>
       [] outcome = "notready" ->
            wpc' = "loop" /\ UNCHANGED <<exceptions, wappended, wresult>>

WPollReturn ==
  /\ wpc = "wait"
  /\ \E outcome \in SelectWriteOutcomes(sockState[wfd]) :
       ready_to_write_result(outcome)
  /\ UNCHANGED <<running, socket, poller, inbound_thread, data_in, sockState>>
  /\ UNCHANGED <<mainVars, readerVars>>
  /\ UNCHANGED <<frame_data, total_bytes_written, wfd, wsock, wArg, sent, writes, wsaw>>

\* io.py 96-98: self.socket.send(frame_data[total_bytes_written:]) is
\* entered; with self.socket None the attribute access raises.
WSendCall ==
  /\ wpc = "send"
  /\ IF socket = None
       THEN /\ write_raises
            /\ wlast' = "nosocket_send"
            /\ UNCHANGED <<wsock, wArg>>
       ELSE /\ wsock' = socket
            /\ wArg' = SliceFrom(frame_data, total_bytes_written)
            /\ wpc' = "sending"
            /\ UNCHANGED <<exceptions, wappended, wresult, wlast>>
  /\ UNCHANGED <<running, socket, poller, inbound_thread, data_in, sockState>>
  /\ UNCHANGED <<mainVars, readerVars>>
  /\ UNCHANGED <<frame_data, total_bytes_written, wfd, sent, writes, wsaw>>

\* What send() can do on a socket in state st: accept some bytes ("ok"),
\* accept none, time out, would-block, or fail with another OS error.
SendOutcomes(st) ==
  IF st = "connected" THEN {"ok", "zero", "timeout", "wouldblock", "fatal"}
  ELSE {"fatal"}

\* send_result with the cursor advanced by the length of the slice handed
\* over instead of by what send() returned.
send_result_assumes_full(outcome, n) ==
  /\ wlast' = outcome
  /\ CASE outcome = "ok" ->
            /\ sent' = sent \o Take(wArg, n)
            /\ total_bytes_written' = total_bytes_written + Len(wArg)
            /\ wpc' = "loop"
            /\ wsaw' = IF n < Len(wArg) THEN wsaw \cup {"partial"} ELSE wsaw
            /\ UNCHANGED <<exceptions, wappended, wresult>>
       [] outcome \in FatalSend ->
            /\ write_fatal("oserror")
            /\ UNCHANGED <<sent, total_bytes_written, wsaw>>
       [] outcome \in TransientSend ->
            /\ wpc' = "loop"
            /\ wsaw' = wsaw \cup {"transient"}
            /\ UNCHANGED <<exceptions, wappended, wresult, sent, total_bytes_written>>

\* send_result without the errno test of io.py 105: a would-block is
\* recorded like any other socket.error.
send_result_no_errno_test(outcome, n) ==
  /\ wlast' = outcome
  /\ CASE outcome = "ok" ->
            /\ sent' = sent \o Take(wArg, n)
            /\ total_bytes_written' = total_bytes_written + n
            /\ wpc' = "loop"
            /\ wsaw' = IF n < Len(wArg) THEN wsaw \cup {"partial"} ELSE wsaw
            /\ UNCHANGED <<exceptions, wappended, wresult>>
       [] outcome \in FatalSend \cup {"wouldblock"} ->
            /\ write_fatal("oserror")
            /\ wsaw' = IF outcome = "wouldblock" THEN wsaw \cup {"transient"} ELSE wsaw
            /\ UNCHANGED <<sent, total_bytes_written>>
       [] outcome = "timeout" ->
            /\ wpc' = "loop"
            /\ wsaw' = wsaw \cup {"transient"}
            /\ UNCHANGED <<exceptions, wappended, wresult, sent, total_bytes_written>>

\* send_result without the zero test of io.py 99-100: a send() that accepts
\* nothing is retried.
send_result_no_zero_test(outcome, n) ==
  /\ wlast' = outcome
  /\ CASE outcome = "ok" ->
            /\ sent' = sent \o Take(wArg, n)
            /\ total_bytes_written' = total_bytes_written + n
            /\ wpc' = "loop"
            /\ wsaw' = IF n < Len(wArg) THEN wsaw \cup {"partial"} ELSE wsaw
            /\ UNCHANGED <<exceptions, wappended, wresult>>
       [] outcome = "fatal" ->
            /\ write_fatal("oserror")
            /\ UNCHANGED <<sent, total_bytes_written, wsaw>>
       [] outcome \in TransientSend \cup {"zero"} ->
            /\ wpc' = "loop"
            /\ wsaw' = IF outcome = "zero" THEN wsaw ELSE wsaw \cup {"transient"}
            /\ UNCHANGED <<exceptions, wappended, wresult, sent, total_bytes_written>>

\* io.py 96-108: the result of send() and what the loop body does with it.
send_result(outcome, n) ==
  /\ wlast' = outcome
  /\ CASE outcome = "ok" ->
            /\ sent' = sent \o Take(wArg, n)
            /\ total_bytes_written' = total_bytes_written + n
            /\ wpc' = "loop"
            /\ wsaw' = IF n < Len(wArg) THEN wsaw \cup {"partial"} ELSE wsaw
            /\ UNCHANGED <<exceptions, wappended, wresult>>
       [] outcome = "zero" ->
            /\ write_fatal("connection/socket error")
            /\ UNCHANGED <<sent, total_bytes_written, wsaw>>
       [] outcome = "fatal" ->
            /\ write_fatal("oserror")
            /\ UNCHANGED <<sent, total_bytes_written, wsaw>>
       [] outcome \in TransientSend ->
            /\ wpc' = "loop"
            /\ wsaw' = wsaw \cup {"transient"}
            /\ UNCHANGED <<exceptions, wappended, wresult, sent, total_bytes_written>>

WSendReturn ==
  /\ wpc = "sending"
  /\ \E outcome \in SendOutcomes(sockState[wsock]) :
       \E n \in (IF outcome = "ok" THEN 1..Len(wArg) ELSE {0}) :
         send_result(outcome, n)
  /\ UNCHANGED <<running, socket, poller, inbound_thread, data_in, sockState>>
  /\ UNCHANGED <<mainVars, readerVars>>
  /\ UNCHANGED <<frame_data, wfd, wsock, wArg, writes>>

Writer ==
  \/ WriteCall
  \/ WLoop
  \/ WSocketCheck
  \/ WPollCall
  \/ WPollReturn
  \/ WSendCall
  \/ WSendReturn

\* ------------------------------------------------------ specifications
Caller ==
  \/ OpenReset
  \/ OpenSetRunning
  \/ OpenGetAddresses
  \/ OpenConnect
  \/ OpenPoller
  \/ OpenThread
  \/ CloseClear
  \/ CloseJoin
  \/ CloseShutdown
  \/ CloseSocketClose
  \/ CloseClearThread
  \/ CloseClearPoller
  \/ CloseClearSocket

Reader(t) ==
  \/ RCheck(t)
  \/ RPollCall(t)
  \/ RPollReturn(t)
  \/ RReceiveCall(t)
  \/ RReceiveReturn(t)
  \/ RStore(t)
  \/ RConsume(t)

\* The reader thread of a connection whose peer sends nothing.
IdleReader(t) ==
  \/ RCheck(t)
  \/ RPollCall(t)
  \/ RPollIdle(t)

NextRead == Caller \/ (\E t \in Handles : Reader(t))

NextWrite == Caller \/ Writer \/ (\E t \in Handles : IdleReader(t))

\* The inbound side: open() and close() called in any order, open() only on
\* an unopened or closed instance, and the reader threads they start.
SpecRead == Init /\ [][NextRead]_vars

\* The outbound side: write_to_socket() on a second application thread, in
\* any overlap with open() and close(); the peer sends nothing meanwhile.
SpecWrite == Init /\ [][NextWrite]_vars

\* The steps of an open() in progress.
OpenSteps ==
  \/ OpenSetRunning
  \/ OpenGetAddresses
  \/ OpenConnect
  \/ OpenPoller
  \/ OpenThread

\* open() called again with no close() in between, on an instance that is
\* open or whose open() failed, and the reader threads this starts; the
\* peers send nothing meanwhile.
NextReuse ==
  \/ OpenReset
  \/ ReopenReset
  \/ OpenSteps
  \/ \E t \in Handles : IdleReader(t)

SpecReuse == Init /\ [][NextReuse]_vars

\* The select() of the writer reports the socket writable.
WPollWritable ==
  /\ wpc = "wait"
  /\ "writable" \in SelectWriteOutcomes(sockState[wfd])
  /\ ready_to_write_result("writable")
  /\ UNCHANGED <<running, socket, poller, inbound_thread, data_in, sockState>>
  /\ UNCHANGED <<mainVars, readerVars>>
  /\ UNCHANGED <<frame_data, total_bytes_written, wfd, wsock, wArg, sent, writes, wsaw>>

\* The send() of the writer accepts at least one byte.
WSendAccepts ==
  /\ wpc = "sending"
  /\ "ok" \in SendOutcomes(sockState[wsock])
  /\ \E n \in 1..Len(wArg) : send_result("ok", n)
  /\ UNCHANGED <<running, socket, poller, inbound_thread, data_in, sockState>>
  /\ UNCHANGED <<mainVars, readerVars>>
  /\ UNCHANGED <<frame_data, wfd, wsock, wArg, writes>>

\* SpecWrite with the writer's thread scheduled, a socket that is writable
\* again and again while the writer waits for it, and a send() that accepts
\* a byte again and again while the writer sends.
FairSpecWrite ==
  /\ SpecWrite
  /\ WF_vars(Writer)
  /\ SF_vars(WPollWritable)
  /\ SF_vars(WSendAccepts)

\* The steps of a close() in progress.
CloseSteps ==
  \/ CloseJoin
  \/ CloseShutdown
  \/ CloseSocketClose
  \/ CloseClearThread
  \/ CloseClearPoller
  \/ CloseClearSocket

\* SpecRead with the scheduling the threads get: a started reader thread
\* keeps running (select() returns within POLL_TIMEOUT, recv() and the
\* consumer return), and so does a caller inside close().
FairSpecRead ==
  /\ SpecRead
  /\ \A t \in Handles : WF_vars(Reader(t))
  /\ WF_vars(CloseSteps)

\* ================================================================ claims
\* A write_to_socket call has ended (returned or raised).
WriteEnded == wpc = "idle" /\ writes > 0
LastException == exceptions[Len(exceptions)]
\* How a call can end other than by having sent everything.
WriteFailures == FatalSend \cup {"xlist", "xlist_writable", "ebadf", "valueerror", "nopoller",
                                 "nosocket", "nosocket_send"}

\* C1: with a socket that accepts any positive number of bytes per send(),
\* a write_to_socket(data) that returns without appending to the error sink
\* has had the socket accept exactly data, every byte once and in order, and
\* every send() is handed exactly the still-unsent suffix of data.
C1_PartialWritesSendAll ==
  /\ (WriteEnded /\ wresult = "returned" /\ wappended = 0) => sent = frame_data
  /\ wpc = "sending" => sent \o wArg = frame_data

\* A full-length payload went out in more than one send().
C1_Witness ==
  /\ WriteEnded /\ wresult = "returned" /\ wappended = 0
  /\ "partial" \in wsaw
  /\ Len(frame_data) = MaxLen
  /\ sent = frame_data

\* C2: a send() that raises would-block / resource-unavailable or a timeout
\* leaves the cursor and the sink as they were and is retried; a call in
\* which that happened and that appended nothing returns with the full
\* payload sent.
C2_TransientSendRetried ==
  /\ [][(wpc = "sending" /\ wlast' \in TransientSend) =>
          /\ total_bytes_written' = total_bytes_written
          /\ sent' = sent
          /\ exceptions' = exceptions
          /\ wpc' = "loop"
          /\ wresult' = "pending"]_vars
  /\ []((WriteEnded /\ "transient" \in wsaw /\ wlast \notin WriteFailures) =>
          /\ wresult = "returned"
          /\ sent = frame_data
          /\ wappended = 0)

\* A call that met a transient send error and still sent everything.
C2_Witness ==
  /\ WriteEnded /\ wresult = "returned"
  /\ "transient" \in wsaw
  /\ Len(frame_data) > 0
  /\ sent = frame_data
  /\ wappended = 0

\* C3: a send() that fails with another socket error, or accepts zero bytes,
\* makes write_to_socket return without raising, with exactly one
\* AMQPConnectionError appended and no send() for the rest of the buffer.
C3_FatalSendRecorded ==
  /\ [][(wpc = "sending" /\ wlast' \in FatalSend) =>
          /\ wpc' = "idle"
          /\ wresult' = "returned"
          /\ Len(exceptions') = Len(exceptions) + 1
          /\ SubSeq(exceptions', 1, Len(exceptions)) = exceptions
          /\ exceptions'[Len(exceptions')].kind = "AMQPConnectionError"
          /\ sent' = sent
          /\ total_bytes_written' = total_bytes_written]_vars
  /\ [](wlast \in FatalSend =>
          /\ WriteEnded
          /\ wresult = "returned"
          /\ wappended = 1
          /\ Len(sent) < Len(frame_data))

\* A send failed fatally after part of the buffer had gone out.
C3_Witness ==
  /\ wlast \in FatalSend
  /\ WriteEnded /\ wresult = "returned"
  /\ 0 < Len(sent) /\ Len(sent) < Len(frame_data)
  /\ wappended = 1

\* The call started with no socket present and never saw one.
NoSocketSeen == "nosocket_at_call" \in wsaw /\ "socket" \notin wsaw

\* C4 as stated: write_to_socket(data) with no socket present, for every
\* payload, returns without raising, sends nothing and appends an
\* AMQPConnectionError.
C4_AsStated ==
  (WriteEnded /\ NoSocketSeen) =>
     /\ wresult = "returned"
     /\ sent = << >>
     /\ wappended = 1
     /\ LastException.kind = "AMQPConnectionError"

\* C4 (amended): write_to_socket(data) with no socket present returns
\* without raising and sends nothing; for a non-empty payload it appends one
\* AMQPConnectionError, for the empty payload it appends nothing.
C4_NoSocketWrite ==
  (WriteEnded /\ NoSocketSeen) =>
     /\ wresult = "returned"
     /\ sent = << >>
     /\ IF Len(frame_data) > 0
          THEN /\ wappended = 1
               /\ wlast = "nosocket"
               /\ LastException.kind = "AMQPConnectionError"
          ELSE wappended = 0

\* A non-empty write after close() has returned.
C4_Witness ==
  /\ WriteEnded /\ NoSocketSeen
  /\ mresult = "closed" /\ sockState[1] # "unused"
  /\ Len(frame_data) > 0
  /\ wlast = "nosocket" /\ wappended = 1

\* C5: every consumer call gets exactly what the previous call returned
\* (nothing at open) followed by the bytes recv() delivered in this
\* iteration, the buffer after the call is what the consumer returned, and
\* it stays that until the next read is stored.
C5_BufferHandOff ==
  /\ [][\A t \in Handles :
          (rpc[t] = "consume" /\ rpc'[t] = "check") =>
             /\ consArg'[t] = carried[t] \o rchunk[t]
             /\ consCalls'[t] = consCalls[t] + 1
             /\ data_in' = carried'[t]]_vars
  /\ [](\A t \in Handles :
          /\ rpc[t] \in {"check", "poll", "wait", "load", "recv"} => data_in = carried[t]
          /\ rpc[t] = "consume" => data_in = carried[t] \o rchunk[t])

\* A consumer call was given a kept remainder followed by a different byte.
C5_Witness ==
  \E t \in Handles :
    /\ rpc[t] = "check" /\ consCalls[t] = 1
    /\ Len(consArg[t]) = MaxKeep + MaxChunk
    /\ consArg[t][1] # consArg[t][Len(consArg[t])]
    /\ rchunk[t] # EMPTY_BUFFER
    /\ data_in = carried[t]

\* C6: a recv() that raises would-block / resource-unavailable or a timeout
\* yields no bytes, appends nothing to the sink, leaves the running flag and
\* the buffer as they were, and the thread goes on: to the consumer, then to
\* the flag test and, the flag still set, to the next select().
C6_TransientReadAbsorbed ==
  /\ [][\A t \in Handles :
          (rpc[t] = "recv" /\ rlast'[t] \in TransientRead) =>
             /\ rgot'[t] = EMPTY_BUFFER
             /\ exceptions' = exceptions
             /\ running' = running
             /\ data_in' = data_in
             /\ rpc'[t] = "store"]_vars
  /\ [][\A t \in Handles :
          (rpc[t] = "check" /\ rlast[t] \in TransientRead /\ running) =>
             rpc'[t] \in {"check", "poll"}]_vars
  /\ [](\A t \in Handles :
          (rlast[t] \in TransientRead /\ rpc[t] = "consume") => data_in = carried[t])

\* A would-block read with bytes waiting in the buffer.
C6_Witness ==
  \E t \in Handles :
    /\ rlast[t] = "wouldblock" /\ rpc[t] = "consume"
    /\ data_in # EMPTY_BUFFER
    /\ running
    /\ exceptions = << >>

\* C7: a recv() that fails with another error, or a missing socket, appends
\* exactly one AMQPConnectionError and clears the running flag; the thread
\* then makes no further select() or recv() and ends; and a thread ends only
\* so or with a close() waiting for it, never by an exception.
C7_FatalReadStopsReader ==
  /\ [][\A t \in Handles :
          (rpc[t] \in {"load", "recv"} /\ rlast'[t] \in FatalRead) =>
             /\ Len(exceptions') = Len(exceptions) + 1
             /\ SubSeq(exceptions', 1, Len(exceptions)) = exceptions
             /\ exceptions'[Len(exceptions')].kind = "AMQPConnectionError"
             /\ ~running']_vars
  /\ [](\A t \in Handles :
          /\ rlast[t] \in FatalRead => (~running /\ rpc[t] \in {"store", "consume", "check"})
          /\ rpc[t] # "crashed")
  /\ [][\A t \in Handles :
          (rpc[t] \in Alive /\ rpc'[t] \notin Alive) =>
             /\ rpc'[t] = "done"
             /\ rlast[t] \in FatalRead \/ mpc = "c_join"]_vars
  /\ \A t \in Handles : (rlast[t] \in FatalRead) ~> (rpc[t] = "done")

\* A reader that hit a fatal read error with no close() in sight.
C7_Witness ==
  \E t \in Handles :
    /\ rlast[t] = "fatal" /\ rpc[t] = "check"
    /\ ~running
    /\ Len(exceptions) = 1
    /\ mpc = "idle" /\ mresult = "returned"

\* An iteration of thread t that made a read attempt has run to its end.
AttemptDone(t) == rpc[t] = "check" /\ rlast[t] # "none"

\* C8 as stated: the consumer is called once per successful read and not
\* for a read attempt that timed out, would-block or failed.
C8_AsStated ==
  \A t \in Handles :
    AttemptDone(t) => consCalls[t] = (IF rlast[t] = "data" THEN 1 ELSE 0)

\* C8 (amended): the consumer is called exactly once per read attempt,
\* whatever its outcome, with the full accumulated buffer (after a failed
\* attempt: the buffer as it was), and not in an iteration without a read.
C8_ConsumerOncePerAttempt ==
  \A t \in Handles :
    /\ consCalls[t] \in {0, 1}
    /\ AttemptDone(t) =>
         /\ consCalls[t] = 1
         /\ consArg[t] = rbuf[t] \o rchunk[t]
         /\ rlast[t] # "data" => consArg[t] = rbuf[t]
    /\ rpc[t] \in Alive \ {"check"} => consCalls[t] = 0
    /\ (rpc[t] = "check" /\ rlast[t] = "none") => consCalls[t] = 0

\* The consumer was called after a read that timed out.
C8_Witness ==
  \E t \in Handles :
    /\ AttemptDone(t) /\ rlast[t] = "timeout"
    /\ consCalls[t] = 1
    /\ consArg[t] # EMPTY_BUFFER

ClosePcs == {"c_join", "c_shutdown", "c_sockclose", "c_thread", "c_poller", "c_socket"}

\* C9: a close() in progress returns, wherever the reader is when it is
\* called, and from its join on no reader thread is running.
C9_CloseReturns ==
  /\ (mpc \in ClosePcs) ~> (mpc = "idle" /\ mresult = "closed")
  /\ []((mpc \in ClosePcs \ {"c_join"} \/ (mpc = "idle" /\ mresult = "closed")) =>
          \A t \in Handles : rpc[t] \notin Alive)

\* close() waits in join() while the reader sits in select().
C9_Witness ==
  /\ mpc = "c_join"
  /\ inbound_thread # None
  /\ rpc[inbound_thread] = "wait"

\* The instance holds no socket, poller or thread and is not running.
IsClosed == socket = None /\ poller = None /\ inbound_thread = None /\ ~running

\* A step of close().
CloseStepTaken == (mpc = "idle" /\ mpc' = "c_join") \/ (mpc \in ClosePcs /\ mpc' # mpc)

\* C10: close() never raises; when it has returned the socket, poller and
\* thread references are absent and the running flag is clear, also when
\* shutdown() or close() of the socket failed; and on an instance already in
\* that state no step of close() changes anything.
C10_CloseClearsAndIsIdempotent ==
  /\ [](mresult # "close_raised")
  /\ []((mpc = "idle" /\ mresult = "closed") => IsClosed)
  /\ [][(IsClosed /\ CloseStepTaken) => UNCHANGED <<ioVars, rpc>>]_vars

\* A second close(), on an instance whose socket did not shut down.
C10_Witness ==
  /\ mpc = "c_socket"
  /\ IsClosed
  /\ opens = 1 /\ sockState[1] = "connected"

\* Candidate i of the resolver's list accepts the connection.
Connects(i) == addrs[i]
\* open() is past the search with a socket in hand.
OpenConnected == mpc \in {"o_poller", "o_thread"}

\* C11: candidates are attempted one at a time in the resolver's order, a
\* candidate that fails changes nothing of the instance and raises nothing,
\* the search stops at the first candidate that connects and the socket is
\* bound to it, and with a candidate that connects in the list open()
\* does not fail with "could not connect" and goes on to return.
C11_FirstConnectingCandidate ==
  /\ [][mpc = "o_connect" /\ tried' # tried /\ tried' # 0 =>
          /\ tried' = tried + 1
          /\ addrs' = addrs
          /\ ~Connects(tried') =>
                /\ mpc' = "o_connect"
                /\ mresult' = "pending"
                /\ UNCHANGED <<ioVars, rpc>>
          /\ Connects(tried') =>
                /\ mpc' = "o_poller"
                /\ socket' # None
                /\ sockState'[socket'] = "connected"]_vars
  /\ [](OpenConnected =>
          /\ socket # None /\ sockState[socket] = "connected"
          /\ Connects(tried)
          /\ \A i \in 1..(tried - 1) : ~Connects(i))
  /\ [][OpenConnected => UNCHANGED <<socket, tried, addrs>> \/ mresult' = "returned"]_vars
  /\ [][(mpc = "o_connect" /\ ~ssl_unavailable
            /\ \E i \in 1..Len(addrs) : Connects(i)) =>
          mresult' = "pending"]_vars
  /\ [][mresult' = "returned" =>
          /\ socket' # None /\ sockState'[socket'] = "connected"
          /\ poller' = socket'
          /\ inbound_thread' # None]_vars

\* The second candidate connected after the first had failed.
C11_Witness ==
  /\ OpenConnected
  /\ tried = 2 /\ ~Connects(1) /\ Connects(2)
  /\ socket = opens /\ sockState[socket] = "connected"
  /\ exceptions = << >>

\* C12: open() fails with 'Could not connect to host:port' exactly when the
\* search has attempted every candidate of the list, each once and in order,
\* and none connected; the failed open() leaves no socket, poller or thread.
C12_NoCandidateConnects ==
  /\ [][mresult' = "raised_could_not_connect" =>
          /\ mpc = "o_connect" /\ mpc' = "idle"
          /\ tried = Len(addrs)
          /\ \A i \in 1..Len(addrs) : ~Connects(i)
          /\ UNCHANGED <<ioVars, rpc>>]_vars
  /\ [][(mpc = "o_connect" /\ ~ssl_unavailable
            /\ \A i \in 1..Len(addrs) : ~Connects(i)) =>
          IF tried < Len(addrs)
            THEN tried' = tried + 1 /\ mpc' = "o_connect" /\ mresult' = "pending"
            ELSE mresult' = "raised_could_not_connect"]_vars
  /\ [](mpc = "o_connect" => tried <= Len(addrs) /\ \A i \in 1..tried : ~Connects(i))
  /\ [](mresult = "raised_could_not_connect" =>
          socket = None /\ poller = None /\ inbound_thread = None)

\* An open() that found no candidate to connect to, on its second call.
C12_Witness ==
  /\ mresult = "raised_could_not_connect" /\ mpc = "idle"
  /\ opens = 2
  /\ socket = None /\ poller = None /\ inbound_thread = None

OpenPcs == {"o_set", "o_resolve", "o_connect", "o_poller", "o_thread"}
\* The ways open() raises: each an AMQPConnectionError (io.py 134, 154, 170).
OpenFailures == {"raised_gaierror", "raised_could_not_connect", "raised_no_tls"}

\* C13: open() ends by returning or by raising an AMQPConnectionError on the
\* caller's thread, and no step of open() appends to the error sink; the
\* resolver's failure is raised before any candidate is attempted, the
\* missing TLS support before any connect(); an open() that raised has
\* started no thread and left socket and poller absent; with TLS enabled
\* and unsupported no open() ever succeeds.
C13_OpenFailsSynchronously ==
  /\ [][(mpc \in OpenPcs /\ mpc' = "idle") =>
          mresult' \in OpenFailures \cup {"returned"}]_vars
  /\ [][(mpc \in OpenPcs /\ mpc' # mpc) => exceptions' = exceptions]_vars
  /\ [][(mpc \in OpenPcs /\ mresult' \in OpenFailures) =>
          /\ mpc' = "idle"
          /\ rpc' = rpc
          /\ socket' = None /\ poller' = None /\ inbound_thread' = None
          /\ sockState' = sockState]_vars
  /\ [][(mpc \in OpenPcs /\ mresult' = "raised_gaierror") =>
          mpc = "o_resolve" /\ tried = 0 /\ addrs = << >>]_vars
  /\ [][(mpc \in OpenPcs /\ mresult' = "raised_no_tls") =>
          mpc = "o_connect" /\ tried = 0 /\ ssl_unavailable]_vars
  /\ [](mresult \in OpenFailures =>
          /\ mpc = "idle"
          /\ socket = None /\ poller = None /\ inbound_thread = None
          /\ \A t \in Handles : rpc[t] \notin Alive)
  /\ [](ssl_unavailable =>
          /\ mresult \notin {"returned", "raised_could_not_connect"}
          /\ \A h \in Handles : sockState[h] = "unused" /\ rpc[h] = "unstarted")

\* The resolver failed on the second open(), after a connection that read a
\* fatal error and was closed: the sink holds that one entry only.
C13_Witness ==
  /\ mresult = "raised_gaierror" /\ mpc = "idle"
  /\ opens = 2 /\ sockState[1] # "unused"
  /\ Len(exceptions) = 1
  /\ socket = None /\ poller = None /\ inbound_thread = None

\* The states of the instance's socket handle: Unopened until the first
\* connect, Connected while self.socket is set, Closed once close() has
\* cleared it.
HandleUnopened == socket = None /\ \A h \in Handles : sockState[h] = "unused"
HandleConnected == socket # None
HandleClosed == socket = None /\ \E h \in Handles : sockState[h] # "unused"

\* C14 as stated: once the instance's handle is Closed it stays Closed;
\* open() after close() yields no connected socket.
C14_AsStated == [][HandleClosed => HandleClosed']_vars

\* C14 (amended): a socket object is connected once, at its creation, and
\* once shut down or closed it is never connected again; the instance takes
\* a socket only when it holds none and then a socket never used before, so
\* after close() an open() connects the instance again, through a new
\* socket object.
C14_SocketObjectsNotReused ==
  /\ [][\A h \in Handles :
          /\ sockState[h] = "closed" => sockState'[h] = "closed"
          /\ sockState[h] = "shutdown" => sockState'[h] \in {"shutdown", "closed"}
          /\ sockState[h] = "connected" => sockState'[h] # "unused"]_vars
  /\ [][socket' # socket =>
          \/ socket # None /\ socket' = None /\ mpc = "c_socket"
          \/ /\ socket = None /\ socket' # None
             /\ sockState[socket'] = "unused"
             /\ sockState'[socket'] = "connected"]_vars
  /\ [](HandleUnopened \/ HandleConnected \/ HandleClosed)

\* The instance is connected again after a close() that closed its first
\* socket.
C14_Witness ==
  /\ mresult = "returned" /\ mpc = "idle"
  /\ opens = 2 /\ socket = 2
  /\ sockState[1] = "closed" /\ sockState[2] = "connected"
  /\ poller = 2 /\ inbound_thread = 2

\* The steps of close() from the socket's shutdown on (io.py 62-66).
TeardownStep == mpc \in ClosePcs \ {"c_join"} /\ mpc' # mpc

\* C16: close() takes no step of its teardown (shutdown, close, clearing
\* thread, poller and socket) while a reader thread is alive; an alive
\* reader is the instance's thread and finds socket and poller present, the
\* same connected socket behind both; every select() and recv() of a reader
\* is on that connected socket, and no reader meets an absent poller or
\* socket or a closed descriptor.
C16_TeardownAfterReader ==
  /\ [][TeardownStep => \A t \in Handles : rpc[t] \notin Alive]_vars
  /\ [](\A t \in Handles :
          rpc[t] \in Alive =>
            /\ inbound_thread = t
            /\ socket # None /\ poller = socket
            /\ sockState[socket] = "connected")
  /\ [](\A t \in Handles :
          /\ rpc[t] \in {"wait", "recv"} =>
                rfd[t] = socket /\ sockState[rfd[t]] = "connected"
          /\ rpc[t] # "crashed"
          /\ rlast[t] # "nosocket")

\* close() is past its join and about to shut the socket down: the reader
\* has ended, socket and poller are still in place.
C16_Witness ==
  /\ mpc = "c_shutdown"
  /\ inbound_thread # None /\ rpc[inbound_thread] = "done"
  /\ socket # None /\ poller = socket /\ sockState[socket] = "connected"
  /\ exceptions = << >>

\* C17: a write_to_socket() that overlaps a close() on another thread never
\* raises, waits in select() only on the poller the instance holds and on a
\* connected socket, has send() in flight only on a connected socket, and
\* ends with all bytes sent or with one AMQPConnectionError appended.
C17_AsStated ==
  /\ wresult # "raised"
  /\ wpc = "wait" => poller = wfd /\ sockState[wfd] = "connected"
  /\ wpc = "sending" => socket = wsock /\ sockState[wsock] = "connected"
  /\ WriteEnded => (sent = frame_data /\ wappended = 0) \/ wappended = 1

\* C18: a write-readiness select() that reports the exceptional list set,
\* with the write list set or not, makes write_to_socket append exactly one
\* AMQPConnectionError('connection/socket error') and return without
\* raising and without a send() in that iteration; the reader's select()
\* has no such outcome: its return appends nothing and leads to the read or
\* back to the flag test.
C18_ExceptionalConditionOnWrite ==
  /\ [][(wpc = "wait" /\ wlast' \in Exceptional) =>
          /\ wpc' = "idle"
          /\ wresult' = "returned"
          /\ exceptions' = Append(exceptions,
                                  AMQPConnectionError("connection/socket error"))
          /\ wappended' = wappended + 1
          /\ sent' = sent
          /\ total_bytes_written' = total_bytes_written]_vars
  /\ [](wlast \in Exceptional =>
          /\ WriteEnded
          /\ wresult = "returned"
          /\ wappended = 1
          /\ Len(sent) < Len(frame_data))
  /\ [][\A t \in Handles :
          (rpc[t] = "wait" /\ rpc'[t] # "wait") =>
             /\ rpc'[t] \in {"check", "load"}
             /\ exceptions' = exceptions
             /\ running' = running]_vars

\* The exceptional condition was reported together with writability, after
\* part of the payload had gone out.
C18_Witness ==
  /\ wlast = "xlist_writable"
  /\ WriteEnded /\ wresult = "returned"
  /\ 0 < Len(sent) /\ Len(sent) < Len(frame_data)
  /\ wappended = 1
  /\ LastException = AMQPConnectionError("connection/socket error")

\* The outcomes after which the loop of write_to_socket goes round again.
RetryOutcomes == TransientSend \cup {"notready"}

\* C19: a write_to_socket() that has returned has either sent the whole
\* payload and appended nothing, or appended one error with part of the
\* payload unsent; a not-ready wait, a timeout or a would-block sends the
\* call back to its loop test, never out of the call, whatever the running
\* flag; and with a socket that is writable and accepts a byte again and
\* again the call ends, with the whole payload sent unless it met a fatal
\* condition.
C19_WriteReturnsSentOrFailed ==
  /\ []((WriteEnded /\ wresult = "returned") =>
          \/ sent = frame_data /\ wappended = 0 /\ wlast \notin WriteFailures
          \/ Len(sent) < Len(frame_data) /\ wappended = 1 /\ wlast \in WriteFailures)
  /\ [][(wpc \in {"wait", "sending"} /\ wlast' \in RetryOutcomes) =>
          /\ wpc' = "loop"
          /\ wresult' = "pending"
          /\ exceptions' = exceptions
          /\ sent' = sent]_vars
  /\ [][(wpc = "loop" /\ total_bytes_written < Len(frame_data)) =>
          wresult' = "pending"]_vars
  /\ [][(wpc = "sending" /\ wlast' = "ok") =>
          /\ total_bytes_written' > total_bytes_written
          /\ total_bytes_written' <= Len(frame_data)]_vars
  /\ (wresult = "pending") ~> WriteEnded
  /\ []((WriteEnded /\ wlast \notin WriteFailures) => sent = frame_data)

\* The call retries after a would-block while the running flag is clear,
\* a close() waiting in its join.
C19_Witness ==
  /\ wpc = "loop" /\ wresult = "pending"
  /\ wlast = "wouldblock"
  /\ ~running /\ mpc = "c_join"
  /\ socket # None /\ sockState[socket] = "connected"
  /\ 0 < Len(sent) /\ Len(sent) < Len(frame_data)

\* The last recv() of thread t returned, with no bytes.
ZeroRead(t) == rlast[t] = "data" /\ rchunk[t] = EMPTY_BUFFER

\* C20: a recv() that returns no bytes appends nothing to the sink and
\* leaves the running flag and the buffer as they were; the consumer is
\* then called once, with the buffer as it was before the read; the thread
\* goes back to the flag test and, the flag set, to the next select(); it
\* ends after such a read only with a close() waiting in its join.
C20_ZeroByteReadGoesOn ==
  /\ [][\A t \in Handles :
          (rpc[t] = "recv" /\ ZeroRead(t)') =>
             /\ exceptions' = exceptions
             /\ running' = running
             /\ data_in' = data_in
             /\ rgot'[t] = EMPTY_BUFFER
             /\ rpc'[t] = "store"]_vars
  /\ [](\A t \in Handles :
          ZeroRead(t) =>
            /\ rpc[t] = "consume" => data_in = carried[t] /\ data_in = rbuf[t]
            /\ rpc[t] = "check" => consCalls[t] = 1 /\ consArg[t] = rbuf[t])
  /\ [][\A t \in Handles :
          (ZeroRead(t) /\ rpc[t] = "check") =>
             /\ running => rpc'[t] \in {"check", "poll"}
             /\ rpc'[t] = "done" => ~running /\ mpc = "c_join"]_vars

\* The peer has closed: the read returned nothing, the consumer got the
\* bytes still in the buffer, and the thread goes on with the flag set.
C20_Witness ==
  \E t \in Handles :
    /\ ZeroRead(t) /\ rpc[t] = "check"
    /\ consCalls[t] = 1 /\ consArg[t] # EMPTY_BUFFER
    /\ running /\ exceptions = << >>
    /\ sockState[t] = "connected" /\ mresult = "returned"

\* The reader threads that are running.
AliveReaders == {t \in Handles : rpc[t] \in Alive}
\* A step of reader thread t that assigns self.data_in (io.py 209, 210).
BufferStepOf(t) == rpc[t] \in {"store", "consume"} /\ rpc'[t] # rpc[t]
\* The step of the caller's thread that assigns self.data_in (io.py 75).
BufferStepOfCaller == mpc = "idle" /\ mpc' = "o_set"

\* C15: whatever open() and close() calls were made, at most one reader
\* thread is alive, and while a reader is alive the buffer is assigned only
\* by steps of that reader: never by the caller's thread, and its value
\* changes in no other step.
C15_AsStated ==
  /\ [](Cardinality(AliveReaders) <= 1)
  /\ [][AliveReaders # {} =>
          /\ ~BufferStepOfCaller
          /\ data_in' # data_in => \E t \in AliveReaders : BufferStepOf(t)]_vars

====
